---- MODULE Spec2Model ----
(***************************************************************************)
(* Model of the target-size resolver and the duration probes of            *)
(* src/main.py (MultimediaCompressor).                                     *)
(*                                                                         *)
(* Units.  The target-size spin boxes have two decimals, so a spin value   *)
(* is kept as an integer number of hundredths of a megabyte; durations are *)
(* kept as integer hundredths of a second.  Every quantity derived from    *)
(* them (total_bits, audio_bits, video_bits, target_size_bytes) is then an *)
(* integer number of hundredths, and the quotients the code computes are   *)
(* the same quotients of the scaled values.  Python's float arithmetic is  *)
(* modelled as exact rational arithmetic.                                  *)
(***************************************************************************)
EXTENDS Integers, Sequences, FiniteSets, TLC

VARIABLES
    pc,               \* position of the running compress handler, "idle" between requests
    kind,             \* "none" | "video" | "audio" | "image": which handler runs
    cv2,              \* TRUE iff `import cv2` succeeded
    MutagenFile,      \* TRUE iff `from mutagen import File` succeeded
    useTargetSizeCheck, \* the tab's "Use Target File Size" check box
    targetSizeSpin,   \* the tab's target size, hundredths of a MB
    bitrateSpin,      \* the tab's direct bitrate (kbps)
    primary,          \* what the ffprobe subprocess did in this probe call
    secondary,        \* what the fallback library did in this probe call
    probeTrace,       \* the measurement tiers invoked by this probe call, in order
    probeReturn,      \* which return statement of the probe ran
    dur,              \* the probe's return value: None or <<hundredths of a second>>
    bitrate,          \* the handler's local `bitrate`: None or <<kbps>>
    encoderCalls,     \* the ffmpeg command lines run by this request, in order
    returncode,       \* None or <<exit code of ffmpeg>>
    stderr,           \* None or <<what ffmpeg wrote to standard error>>
    message,          \* the dialog shown to the user by this request
    outFile,          \* what this request left at savePath
    qualitySpin,      \* the image tab's quality spin box
    quality,          \* compressImage's local `quality`: None or <<quality>>
    ext,              \* lower-cased extension of the image save path
    imgMode,          \* pixel mode of the opened image ("RGB" or "RGBA")
    img,              \* the image as its size oracle: the JPEG size at each quality
    min_quality,      \* find_quality_for_target_size's arguments and locals ...
    max_quality,
    target_size_bytes, \* in hundredths of a byte
    low,
    high,
    best_quality,     \* None or <<quality>>
    best_diff,        \* None for float('inf'), else <<hundredths of a byte>>
    best_buffer,      \* None or <<the encoding: its quality and its length>>
    visited           \* the qualities encoded by the search, in order

probeVars == <<primary, secondary, probeTrace, probeReturn, dur>>
tabVars   == <<useTargetSizeCheck, targetSizeSpin, bitrateSpin>>
envVars   == <<cv2, MutagenFile>>
encVars   == <<bitrate, encoderCalls, returncode, stderr, outFile>>
searchVars == <<min_quality, max_quality, target_size_bytes, low, high,
                best_quality, best_diff, best_buffer, visited>>
imgVars   == <<qualitySpin, quality, ext, imgMode, img, searchVars>>
vars      == <<pc, kind, cv2, MutagenFile, useTargetSizeCheck, targetSizeSpin,
               bitrateSpin, primary, secondary, probeTrace, probeReturn, dur,
               bitrate, encoderCalls, returncode, stderr, message, outFile, imgVars>>

None    == <<>>
Some(v) == <<v>>
Val(o)  == o[1]

-----------------------------------------------------------------------------
(* Inputs *)

\* Text the duration tool can leave on standard output.
Stdouts == {"", "N/A", "-1.000000", "0.000000", "0.100000", "60.000000",
            "65.500000", "65.600000", "838.800000", "838.900000"}

\* Values of the target-size spin boxes (hundredths of a MB): 0.10, 1.00, 10.00.
TargetSpinValues == {10, 100, 1000}

VideoBitrateSpinValues == {100, 1000}
AudioBitrateSpinValues == {64, 128}

ExitCodes == {0, 1}

\* What cv2.VideoCapture can report: frames per second and frame count.
FpsValues    == {0, 10}
FrameValues  == {-1, 0, 600, 655}

\* What mutagen can report as audio.info.length, in hundredths of a second.
MutagenLengths == {-100, 0, 6000, 83890}


\* Values of the image tab's target-size spin box: 0.10 and 1.00 MB.
ImageTargetSpinValues == {10, 100}

\* Line 242: the quality spin box starts at 85.
DefaultQuality == 85

\* Values of the image tab's quality spin box.
QualitySpinValues == {50, DefaultQuality}

\* Extensions the save dialog can give.
Extensions == {".jpg", ".jpeg", ".png", ".bmp"}

ImageModes == {"RGB", "RGBA"}

\* Line 147: the default arguments of find_quality_for_target_size.
DefaultMinQuality == 10
DefaultMaxQuality == 95

\* Widest of the small quality ranges explored with every size oracle.
MaxWidth == 4

\* Encoded sizes lie within MaxOff bytes of the target.
MaxOff == 2

\* Line 349: targetSizeSpin.value() * 1024 * 1024, in hundredths of a byte.
TargetSizeBytes(spin) == spin * 1024 * 1024

\* Encoded sizes in bytes around a target given in hundredths of a byte.
SizesNear(t, below, above) == {(t \div 100) + o : o \in (-below)..above}

\* The quality ranges find_quality_for_target_size is explored with: the
\* default one compressImage uses, the small ones, and the empty one <<1, 0>>.
\* The midpoint low + (high - low) \div 2 does not depend on where the range
\* starts, so the small ranges all start at 1.
SmallRanges   == {<<1, hi>> : hi \in 0..MaxWidth}
DefaultRange  == <<DefaultMinQuality, DefaultMaxQuality>>
QualityRanges == {DefaultRange} \cup SmallRanges

\* A size oracle is a piecewise-constant function of the quality, kept as its
\* pieces in increasing order of `from`.
TableOracles(lo, hi, S) ==
    {[i \in 1..(hi - lo + 1) |-> [from |-> lo + i - 1, size |-> f[lo + i - 1]]] :
        f \in [lo..hi -> S]}

\* Non-decreasing triples of sizes.
Rising(S) == {s \in S \X S \X S : s[1] <= s[2] /\ s[2] <= s[3]}

\* Non-decreasing oracles of at most three pieces whose breakpoints are at most
\* two apart: every path of the search through lo..hi is taken by one of them.
StepOracles(lo, hi, S) ==
    {<<[from |-> lo, size |-> s[1]], [from |-> a, size |-> s[2]],
       [from |-> a + k, size |-> s[3]]>> :
        a \in lo..(hi + 1), k \in 0..2, s \in Rising(S)}

\* The oracles a search over range r with target t is explored with.  An image
\* with an alpha channel has no JPEG encoding at any quality.
Oracles(m, r, t) ==
    IF m = "RGBA" THEN {<<>>}
    ELSE IF r = DefaultRange
    THEN StepOracles(r[1], r[2], SizesNear(t, 1, 2))
    ELSE TableOracles(r[1], r[2], SizesNear(t, MaxOff, MaxOff))

-----------------------------------------------------------------------------
(* Pure helpers *)

\* float(dur_str) of the stripped standard output: None when float() raises
\* ValueError, else the value in hundredths of a second.
ParseFloat(s) ==
    CASE s = "-1.000000"   -> Some(-100)
      [] s = "0.000000"    -> Some(0)
      [] s = "0.100000"    -> Some(10)
      [] s = "60.000000"   -> Some(6000)
      [] s = "65.500000"   -> Some(6550)
      [] s = "65.600000"   -> Some(6560)
      [] s = "838.800000"  -> Some(83880)
      [] s = "838.900000"  -> Some(83890)
      [] OTHER             -> None

\* int(a / b) of Python: the quotient truncated towards zero.
TruncDiv(a, b) ==
    LET na == IF a < 0 THEN -a ELSE a
        nb == IF b < 0 THEN -b ELSE b
        q  == na \div nb
    IN  IF (a < 0) = (b < 0) THEN q ELSE -q

PrimaryValid_ExitChecked(p) ==
    /\ ~p.raised
    /\ p.returncode = 0
    /\ ParseFloat(p.stdout) # None
    /\ Val(ParseFloat(p.stdout)) > 0

\* Lines 98-103 / 130-135: the try block reaches `return dur_val`.
PrimaryValid(p) ==
    /\ ~p.raised
    /\ ParseFloat(p.stdout) # None
    /\ Val(ParseFloat(p.stdout)) > 0

\* Line 528 / 732: `not dur` is true for None and for 0.0.
NotDur(d) == d = None \/ Val(d) = 0

\* Line 532.
audio_bitrate == 128000

\* Bit counts are kept in units of 10.24 bits (1024 hundredths of a bit): the
\* unit divides total_bits and audio_bits exactly and keeps every product
\* within TLC's 32-bit integers.

\* Line 531 / 735: targetSizeSpin.value() * 1024 * 1024 * 8.
total_bits(spin) == spin * 1024 * 8

\* Line 533: audio_bitrate * dur.
audio_bits(d) == (audio_bitrate \div 1024) * d

\* Line 534.
video_bits(spin, d) == total_bits(spin) - audio_bits(d)

video_computed_bitrate_NoAudio(spin, d) == TruncDiv(total_bits(spin) * 128, d * 125)

\* Line 538: int((video_bits / dur) / 1000); 1024/1000 = 128/125.
video_computed_bitrate(spin, d) == TruncDiv(video_bits(spin, d) * 128, d * 125)

audio_computed_bitrate_WithOverhead(spin, d) == video_computed_bitrate(spin, d)

\* Line 736: int((total_bits / dur) / 1000).
audio_computed_bitrate(spin, d) == TruncDiv(total_bits(spin) * 128, d * 125)

NoPrimary   == [raised |-> FALSE, returncode |-> 0, stdout |-> ""]
NoSecondary == [what |-> "none", fps |-> 0, frames |-> 0, length |-> 0]

-----------------------------------------------------------------------------
Init ==
    /\ pc = "idle"
    /\ kind = "none"
    /\ cv2 \in BOOLEAN
    /\ MutagenFile \in BOOLEAN
    /\ useTargetSizeCheck = FALSE
    /\ targetSizeSpin = 100
    /\ bitrateSpin = 128
    /\ primary = NoPrimary
    /\ secondary = NoSecondary
    /\ probeTrace = <<>>
    /\ probeReturn = "none"
    /\ dur = None
    /\ bitrate = None
    /\ encoderCalls = <<>>
    /\ returncode = None
    /\ stderr = None
    /\ message = "none"
    /\ outFile = "absent"
    /\ qualitySpin = 85
    /\ quality = None
    /\ ext = ""
    /\ imgMode = "RGB"
    /\ img = <<>>
    /\ min_quality = 0
    /\ max_quality = 0
    /\ target_size_bytes = 0
    /\ low = 0
    /\ high = 0
    /\ best_quality = None
    /\ best_diff = None
    /\ best_buffer = None
    /\ visited = <<>>

\* The state every handler starts from and the event loop returns to: the
\* handler's locals hold nothing.
FreshRequest ==
    /\ primary' = NoPrimary
    /\ secondary' = NoSecondary
    /\ probeTrace' = <<>>
    /\ probeReturn' = "none"
    /\ dur' = None
    /\ encoderCalls' = <<>>
    /\ returncode' = None
    /\ stderr' = None
    /\ message' = "none"
    /\ outFile' = "absent"

\* No image is open and no search is running.
FreshImage ==
    /\ quality' = None
    /\ ext' = ""
    /\ imgMode' = "RGB"
    /\ img' = <<>>
    /\ min_quality' = 0
    /\ max_quality' = 0
    /\ target_size_bytes' = 0
    /\ low' = 0
    /\ high' = 0
    /\ best_quality' = None
    /\ best_diff' = None
    /\ best_buffer' = None
    /\ visited' = <<>>

-----------------------------------------------------------------------------
(* compressVideo / compressAudio up to the target-size branch *)

\* Lines 510-526 and 540-541: the user has set the widgets and clicked
\* "Compress Video" with a file selected and a save path chosen.
compressVideo ==
    /\ pc = "idle"
    /\ \E target \in BOOLEAN, spin \in TargetSpinValues, br \in VideoBitrateSpinValues :
         /\ useTargetSizeCheck' = target
         /\ targetSizeSpin' = spin
         /\ bitrateSpin' = br
         /\ kind' = "video"
         /\ IF target
            THEN pc' = "probe_primary" /\ bitrate' = None
            ELSE pc' = "encode" /\ bitrate' = Some(br)
    /\ FreshRequest
    /\ UNCHANGED <<envVars, imgVars>>

\* Lines 706-730 and 738-739.
compressAudio ==
    /\ pc = "idle"
    /\ \E target \in BOOLEAN, spin \in TargetSpinValues, br \in AudioBitrateSpinValues :
         /\ useTargetSizeCheck' = target
         /\ targetSizeSpin' = spin
         /\ bitrateSpin' = br
         /\ kind' = "audio"
         /\ IF target
            THEN pc' = "probe_primary" /\ bitrate' = None
            ELSE pc' = "encode" /\ bitrate' = Some(br)
    /\ FreshRequest
    /\ UNCHANGED <<envVars, imgVars>>

-----------------------------------------------------------------------------
(* The duration probes *)

\* What subprocess.run of ffprobe can do: raise, or finish with an exit code
\* and some text on standard output.
PrimaryOutcomes ==
    {[raised |-> TRUE, returncode |-> 0, stdout |-> ""]}
    \cup [raised : {FALSE}, returncode : ExitCodes, stdout : Stdouts]

\* Lines 90-105 (get_duration) and 122-137 (get_audio_duration): the try block.
ProbePrimary ==
    /\ pc = "probe_primary"
    /\ \E p \in PrimaryOutcomes :
         /\ primary' = p
         /\ probeTrace' = Append(probeTrace, "primary")
         /\ IF PrimaryValid(p)
            THEN /\ dur' = ParseFloat(p.stdout)
                 /\ probeReturn' = "primary"
                 /\ pc' = "resolve"
            ELSE /\ dur' = dur
                 /\ probeReturn' = probeReturn
                 /\ pc' = "probe_fallback"
    /\ UNCHANGED <<kind, envVars, tabVars, secondary, encVars, message, imgVars>>

Cv2Outcomes ==
    {[what |-> "raised", fps |-> 0, frames |-> 0, length |-> 0],
     [what |-> "closed", fps |-> 0, frames |-> 0, length |-> 0]}
    \cup [what : {"opened"}, fps : FpsValues, frames : FrameValues, length : {0}]

\* Lines 109-113: the value get_duration's fallback returns, None when it
\* falls through to `return None`.
Cv2Duration(s) ==
    IF s.what = "opened" /\ s.fps > 0 /\ s.frames > 0
    THEN Some((s.frames * 100) \div s.fps)
    ELSE None

\* Lines 104-116: the except branch of get_duration.
get_duration_fallback ==
    /\ pc = "probe_fallback"
    /\ kind = "video"
    /\ IF cv2
       THEN \E s \in Cv2Outcomes :
              /\ secondary' = s
              /\ probeTrace' = Append(probeTrace, "secondary")
              /\ dur' = Cv2Duration(s)
              /\ probeReturn' = IF Cv2Duration(s) = None THEN "unknown" ELSE "secondary"
       ELSE /\ secondary' = [what |-> "unavailable", fps |-> 0, frames |-> 0, length |-> 0]
            /\ probeTrace' = probeTrace
            /\ dur' = None
            /\ probeReturn' = "unknown"
    /\ pc' = "resolve"
    /\ UNCHANGED <<kind, envVars, tabVars, primary, encVars, message, imgVars>>

MutagenOutcomes ==
    {[what |-> "raised", fps |-> 0, frames |-> 0, length |-> 0],
     [what |-> "falsy", fps |-> 0, frames |-> 0, length |-> 0],
     [what |-> "no_length", fps |-> 0, frames |-> 0, length |-> 0]}
    \cup [what : {"length"}, fps : {0}, frames : {0}, length : MutagenLengths]

\* Lines 140-142: the value get_audio_duration's fallback returns, None when
\* it falls through to `return None`.
MutagenDuration(s) ==
    IF s.what = "length" THEN Some(s.length) ELSE None

\* Lines 136-145: the except branch of get_audio_duration.
get_audio_duration_fallback ==
    /\ pc = "probe_fallback"
    /\ kind = "audio"
    /\ IF MutagenFile
       THEN \E s \in MutagenOutcomes :
              /\ secondary' = s
              /\ probeTrace' = Append(probeTrace, "secondary")
              /\ dur' = MutagenDuration(s)
              /\ probeReturn' = IF MutagenDuration(s) = None THEN "unknown" ELSE "secondary"
       ELSE /\ secondary' = [what |-> "unavailable", fps |-> 0, frames |-> 0, length |-> 0]
            /\ probeTrace' = probeTrace
            /\ dur' = None
            /\ probeReturn' = "unknown"
    /\ pc' = "resolve"
    /\ UNCHANGED <<kind, envVars, tabVars, primary, encVars, message, imgVars>>

-----------------------------------------------------------------------------
(* The target-size branch after the probe *)

resolve_video_bitrate_FallsBack ==
    /\ pc = "resolve"
    /\ kind = "video"
    /\ IF NotDur(dur)
       THEN /\ message' = message
            /\ bitrate' = Some(bitrateSpin)
            /\ pc' = "encode"
       ELSE IF video_bits(targetSizeSpin, Val(dur)) <= 0
       THEN /\ message' = "Target size too small for the audio track."
            /\ bitrate' = bitrate
            /\ pc' = "done"
       ELSE /\ message' = message
            /\ bitrate' = Some(video_computed_bitrate(targetSizeSpin, Val(dur)))
            /\ pc' = "encode"
    /\ UNCHANGED <<kind, envVars, tabVars, probeVars, encoderCalls, returncode, stderr, outFile, imgVars>>

\* Lines 528-539 of compressVideo.
resolve_video_bitrate ==
    /\ pc = "resolve"
    /\ kind = "video"
    /\ IF NotDur(dur)
       THEN /\ message' = "Could not determine video duration."
            /\ bitrate' = bitrate
            /\ pc' = "done"
       ELSE IF video_bits(targetSizeSpin, Val(dur)) <= 0
       THEN /\ message' = "Target size too small for the audio track."
            /\ bitrate' = bitrate
            /\ pc' = "done"
       ELSE /\ message' = message
            /\ bitrate' = Some(video_computed_bitrate(targetSizeSpin, Val(dur)))
            /\ pc' = "encode"
    /\ UNCHANGED <<kind, envVars, tabVars, probeVars, encoderCalls, returncode, stderr, outFile, imgVars>>

\* Lines 732-737 of compressAudio.
resolve_audio_bitrate ==
    /\ pc = "resolve"
    /\ kind = "audio"
    /\ IF NotDur(dur)
       THEN /\ message' = "Could not determine audio duration."
            /\ bitrate' = bitrate
            /\ pc' = "done"
       ELSE /\ message' = message
            /\ bitrate' = Some(audio_computed_bitrate(targetSizeSpin, Val(dur)))
            /\ pc' = "encode"
    /\ UNCHANGED <<kind, envVars, tabVars, probeVars, encoderCalls, returncode, stderr, outFile, imgVars>>

-----------------------------------------------------------------------------
(* compressImage and the quality search *)

\* Line 156-157: img.save(buffer, "JPEG", quality=q); buffer.tell().
EncodedSize(o, q) ==
    LET i == CHOOSE k \in 1..Len(o) :
                 /\ o[k].from <= q
                 /\ \A j \in 1..Len(o) : o[j].from <= q => j <= k
    IN  o[i].size

\* Line 158: abs(size - target_size_bytes), in hundredths of a byte.
Diff(size, target) ==
    IF size * 100 >= target THEN size * 100 - target ELSE target - size * 100

Improves_OrEqual(diff, best) == best = None \/ diff <= Val(best)

Improves_FirstOnly(diff, best) == best = None

Improves_ZeroInit(diff, best) == diff < (IF best = None THEN 0 ELSE Val(best))

\* Line 159: diff < best_diff, with best_diff starting at float('inf').
Improves(diff, best) == best = None \/ diff < Val(best)

TooBig_OrEqual(size, target) == size * 100 >= target

TooBig_Reversed(size, target) == size * 100 < target

\* Line 163: size > target_size_bytes.
TooBig(size, target) == size * 100 > target

NextLow_NoAdvance(mid) == mid

\* Line 166: low = mid + 1.
NextLow(mid) == mid + 1

\* Line 164: high = mid - 1.
NextHigh(mid) == mid - 1

\* Line 154: (low + high) // 2.
Mid(lo, hi) == (lo + hi) \div 2

UsesSearch_AnyExt(target, e) == target

\* Line 348: the quality search runs.
UsesSearch(target, e) == target /\ e \in {".jpg", ".jpeg"}

\* Lines 330-350 and 358-369: the user clicked "Compress Image" with a file
\* selected and a save path chosen.  compressImage calls the search with its
\* default range; the other ranges are the function's own contract.
compressImage ==
    /\ pc = "idle"
    /\ \E target \in BOOLEAN, spin \in ImageTargetSpinValues, q \in QualitySpinValues,
          e \in Extensions, m \in ImageModes :
         \* the quality spin box is read on the direct path only: the search
         \* is explored with the box at its default
         /\ UsesSearch(target, e) => q = DefaultQuality
         /\ useTargetSizeCheck' = target
         /\ targetSizeSpin' = spin
         /\ qualitySpin' = q
         /\ ext' = e
         /\ imgMode' = m
         /\ IF UsesSearch(target, e)
            THEN /\ \E r \in QualityRanges :
                      /\ img' \in Oracles(m, r, TargetSizeBytes(spin))
                      /\ min_quality' = r[1]
                      /\ max_quality' = r[2]
                      /\ low' = r[1]
                      /\ high' = r[2]
                 /\ target_size_bytes' = TargetSizeBytes(spin)
                 /\ quality' = None
                 /\ pc' = "search"
                 /\ message' = "none"
                 /\ outFile' = "absent"
            ELSE /\ img' = <<>>
                 /\ min_quality' = 0
                 /\ max_quality' = 0
                 /\ low' = 0
                 /\ high' = 0
                 /\ target_size_bytes' = 0
                 /\ quality' = Some(q)
                 /\ pc' = "done"
                 /\ message' = "success"
                 /\ outFile' = IF e = ".png" THEN "PNG" ELSE "JPEG"
    /\ kind' = "image"
    /\ best_quality' = None
    /\ best_diff' = None
    /\ best_buffer' = None
    /\ visited' = <<>>
    /\ UNCHANGED <<envVars, bitrateSpin, probeVars, bitrate, encoderCalls, returncode, stderr>>

\* Lines 153-166: one iteration of the while loop.  Saving an image with an
\* alpha channel as JPEG raises, which compressImage reports (line 371).
SearchStep ==
    /\ pc = "search"
    /\ low <= high
    /\ LET mid  == Mid(low, high)
           size == EncodedSize(img, mid)
           diff == Diff(size, target_size_bytes)
       IN  IF imgMode = "RGBA"
           THEN /\ pc' = "done"
                /\ message' = "Failed to compress image."
                /\ UNCHANGED <<low, high, best_quality, best_diff, best_buffer, visited>>
           ELSE /\ visited' = Append(visited, mid)
                /\ IF Improves(diff, best_diff)
                   THEN /\ best_diff' = Some(diff)
                        /\ best_quality' = Some(mid)
                        /\ best_buffer' = Some([quality |-> mid, size |-> size])
                   ELSE UNCHANGED <<best_diff, best_quality, best_buffer>>
                /\ IF TooBig(size, target_size_bytes)
                   THEN high' = NextHigh(mid) /\ low' = low
                   ELSE low' = NextLow(mid) /\ high' = high
                /\ pc' = "search"
                /\ message' = message
    /\ UNCHANGED <<kind, envVars, tabVars, probeVars, encVars, qualitySpin, quality,
                   ext, imgMode, img, min_quality, max_quality, target_size_bytes>>

\* Line 167 and lines 350-357: the search returns (best_quality, best_buffer)
\* and compressImage writes the buffer or warns.
SearchReturn ==
    /\ pc = "search"
    /\ low > high
    /\ quality' = best_quality
    /\ IF best_quality # None
       THEN /\ outFile' = "buffer"
            /\ message' = "success"
       ELSE /\ outFile' = outFile
            /\ message' = "Could not determine an optimal quality setting."
    /\ pc' = "done"
    /\ UNCHANGED <<kind, envVars, tabVars, probeVars, bitrate, encoderCalls,
                   returncode, stderr, qualitySpin, ext, imgMode, img, searchVars>>

-----------------------------------------------------------------------------
(* The encoder *)

EncoderCommand_MismatchedAudio ==
    IF kind = "video"
    THEN [kind |-> "video", bitrate |-> Val(bitrate),
          ca |-> IF useTargetSizeCheck THEN "aac" ELSE "copy",
          ba |-> IF useTargetSizeCheck THEN Some(192) ELSE None]
    ELSE [kind |-> "audio", bitrate |-> Val(bitrate),
          ca |-> "codec", ba |-> Some(Val(bitrate))]

\* Lines 543-560 and 744-754: the ffmpeg command line, as the arguments that
\* depend on the resolved plan.
EncoderCommand ==
    IF kind = "video"
    THEN [kind |-> "video", bitrate |-> Val(bitrate),
          ca |-> IF useTargetSizeCheck THEN "aac" ELSE "copy",
          ba |-> IF useTargetSizeCheck THEN Some(128) ELSE None]
    ELSE [kind |-> "audio", bitrate |-> Val(bitrate),
          ca |-> "codec", ba |-> Some(Val(bitrate))]

\* What ffmpeg leaves at the output path: the finished file when it exits 0,
\* nothing or an unfinished file when it fails.
EncoderLeaves(rc) == IF rc = 0 THEN {"complete"} ELSE {"absent", "partial"}

\* What ffmpeg can write to standard error.
StderrTexts == {"Invalid data found when processing input", "No space left on device"}

\* Lines 566 and 760: the failure dialog's text.
FailureMessage(k, err) ==
    IF k = "video"
    THEN "Video compression failed. Error: " \o err
    ELSE "Audio compression failed. Error: " \o err

RunEncoder_Retry ==
    /\ pc = "encode"
    /\ kind \in {"video", "audio"}
    /\ \E rc \in ExitCodes, err \in StderrTexts :
         /\ encoderCalls' = Append(encoderCalls, EncoderCommand)
         /\ returncode' = Some(rc)
         /\ stderr' = Some(err)
         /\ outFile' \in EncoderLeaves(rc)
         /\ message' = IF rc = 0 THEN "success" ELSE FailureMessage(kind, err)
         /\ pc' = IF rc = 0 THEN "done" ELSE "encode"
    /\ UNCHANGED <<kind, envVars, tabVars, probeVars, bitrate, imgVars>>

\* Lines 562-566 and 756-760: run ffmpeg once and report.
RunEncoder ==
    /\ pc = "encode"
    /\ kind \in {"video", "audio"}
    /\ \E rc \in ExitCodes, err \in StderrTexts :
         /\ encoderCalls' = Append(encoderCalls, EncoderCommand)
         /\ returncode' = Some(rc)
         /\ stderr' = Some(err)
         /\ outFile' \in EncoderLeaves(rc)
         /\ message' = IF rc = 0 THEN "success" ELSE FailureMessage(kind, err)
    /\ pc' = "done"
    /\ UNCHANGED <<kind, envVars, tabVars, probeVars, bitrate, imgVars>>

\* The handler returns to the event loop.  The widgets are read when a handler
\* starts, from whatever the user has set by then; in between the model keeps
\* them at their defaults.
Return ==
    /\ pc = "done"
    /\ pc' = "idle"
    /\ kind' = "none"
    /\ bitrate' = None
    /\ useTargetSizeCheck' = FALSE
    /\ targetSizeSpin' = 100
    /\ bitrateSpin' = 128
    /\ qualitySpin' = 85
    /\ FreshRequest
    /\ FreshImage
    /\ UNCHANGED envVars

Next ==
    \/ compressVideo
    \/ compressAudio
    \/ compressImage
    \/ SearchStep
    \/ SearchReturn
    \/ ProbePrimary
    \/ get_duration_fallback
    \/ get_audio_duration_fallback
    \/ resolve_video_bitrate
    \/ resolve_audio_bitrate
    \/ RunEncoder
    \/ Return

Spec == Init /\ [][Next]_vars

-----------------------------------------------------------------------------
(* Properties of the target-size resolver and of the probes *)

TargetRequest == kind \in {"video", "audio"} /\ useTargetSizeCheck

\* The probe has returned to the handler.
ProbeReturned == TargetRequest /\ pc \in {"resolve", "encode", "done"}

\* The target-size branch of the handler has run to its end.
Resolved == TargetRequest /\ pc \in {"encode", "done"}

\* C1: in video target-size mode with a duration > 0, a target whose bits
\* exceed the audio bits gets a bitrate >= 1 kbps, and every other target is
\* rejected without a bitrate.
C1_VideoBitratePositiveOrRejected ==
    (Resolved /\ kind = "video" /\ dur # None /\ Val(dur) > 0) =>
        IF total_bits(targetSizeSpin) > audio_bits(Val(dur))
        THEN bitrate # None /\ Val(bitrate) >= 1
        ELSE /\ bitrate = None
             /\ message = "Target size too small for the audio track."

\* C2: in target-size mode the encoder is never run with a bitrate <= 0.
C2_EncoderBitratePositive ==
    TargetRequest =>
        \A i \in 1..Len(encoderCalls) : encoderCalls[i].bitrate > 0

\* The fallback gave nothing usable: it is unavailable, raised, or reported a
\* missing or non-positive value.
SecondaryUnusable ==
    \/ secondary.what \in {"unavailable", "raised", "closed", "falsy", "no_length"}
    \/ secondary.what = "opened" /\ (secondary.fps <= 0 \/ secondary.frames <= 0)
    \/ secondary.what = "length" /\ secondary.length <= 0

\* The primary tool gave a positive parseable float.
PrimaryPositive ==
    /\ ~primary.raised
    /\ ParseFloat(primary.stdout) # None
    /\ Val(ParseFloat(primary.stdout)) > 0

\* C3: a probe whose primary tool gave no positive float and whose fallback
\* gave nothing usable returns None, and no probe returns a duration <= 0.
C3_ProbeUnknownNeverNonPositive ==
    ProbeReturned =>
        /\ (~PrimaryPositive /\ SecondaryUnusable) => dur = None
        /\ dur # None => Val(dur) > 0

\* C4: a primary tool that exits non-zero is invalid whatever it printed: the
\* probe then does not return the primary value.
C4_NonZeroExitIsInvalid ==
    (ProbeReturned /\ ~primary.raised /\ primary.returncode # 0) =>
        probeReturn # "primary"

\* C5: within one probe call the primary tool runs once and first, a positive
\* parseable primary value is returned without consulting the fallback, and
\* the fallback runs at most once and only after an invalid primary.
C5_ProbeTierOrder ==
    /\ probeTrace \in {<<>>, <<"primary">>, <<"primary", "secondary">>}
    /\ (pc = "probe_fallback" \/ ProbeReturned) => Len(probeTrace) >= 1
    /\ (Len(probeTrace) >= 1 /\ PrimaryPositive) =>
          /\ probeTrace = <<"primary">>
          /\ pc # "probe_fallback"
          /\ probeReturn = "primary"
          /\ dur = ParseFloat(primary.stdout)
    /\ Len(probeTrace) = 2 => ~PrimaryPositive

\* C5 witness: the primary value is returned although the fallback library is
\* installed.
C5_Witness_PrimaryOnly ==
    /\ pc = "resolve"
    /\ kind = "video"
    /\ cv2
    /\ PrimaryPositive
    /\ probeTrace = <<"primary">>
    /\ dur = Some(6000)

\* C6: a target-size request whose probe returned None is rejected with a
\* message; no bitrate is computed and the encoder is not run.
C6_UnknownDurationRejected ==
    (TargetRequest /\ probeReturn = "unknown") =>
        /\ dur = None
        /\ bitrate = None
        /\ encoderCalls = <<>>
        /\ pc \in {"resolve", "done"}
        /\ pc = "done" =>
              /\ message = IF kind = "video"
                           THEN "Could not determine video duration."
                           ELSE "Could not determine audio duration."
              /\ outFile = "absent"

\* C6 witness: a video request rejected after both tiers failed.
C6_Witness_Rejected ==
    /\ pc = "done"
    /\ kind = "video"
    /\ useTargetSizeCheck
    /\ probeReturn = "unknown"
    /\ probeTrace = <<"primary", "secondary">>
    /\ message = "Could not determine video duration."

-----------------------------------------------------------------------------
(* Properties of the image quality search *)

\* find_quality_for_target_size has left its loop and is about to return.
SearchExited == pc = "search" /\ low > high

\* The search has returned to compressImage, which has reported.
SearchReported ==
    pc = "done" /\ kind = "image" /\ UsesSearch(useTargetSizeCheck, ext)
    /\ message # "Failed to compress image."

DiffAt(q) == Diff(EncodedSize(img, q), target_size_bytes)

Visited == {visited[i] : i \in 1..Len(visited)}

\* C7: over a non-empty range the search returns a quality within the range
\* that is at least as close to the target as every quality it encoded.
C7_BestOfVisited ==
    ((SearchExited \/ SearchReported) /\ min_quality <= max_quality) =>
        /\ best_quality # None
        /\ Val(best_quality) \in min_quality..max_quality
        /\ Val(best_quality) \in Visited
        /\ best_diff = Some(DiffAt(Val(best_quality)))
        /\ \A v \in Visited : DiffAt(Val(best_quality)) <= DiffAt(v)

\* C7 witness: a search that improved on its first trial.
C7_Witness_LaterTrialWins ==
    /\ SearchExited
    /\ Len(visited) >= 3
    /\ best_quality # None
    /\ Val(best_quality) = visited[3]
    /\ DiffAt(visited[3]) < DiffAt(visited[2])
    /\ DiffAt(visited[2]) < DiffAt(visited[1])

RangeSize == max_quality - min_quality + 1

RECURSIVE CeilLog2(_)
CeilLog2(n) == IF n <= 1 THEN 0 ELSE 1 + CeilLog2((n + 1) \div 2)

RECURSIVE FloorLog2(_)
FloorLog2(n) == IF n <= 1 THEN 0 ELSE 1 + FloorLog2(n \div 2)

RECURSIVE Halved(_, _)
Halved(n, k) == IF k = 0 THEN n ELSE Halved(n \div 2, k - 1)

Searching == pc = "search" \/ SearchReported

\* C8 as stated: over a non-empty range the search encodes at most
\* ceil(log2(max_quality - min_quality + 1)) times.
C8_Original_CeilLog2Bound ==
    (Searching /\ min_quality <= max_quality) =>
        Len(visited) <= CeilLog2(RangeSize)

\* C8 amended: the search encodes at most floor(log2(range size)) + 1 times
\* (7 for the range 10..95), never the same quality twice, and every encode at
\* least halves the qualities left to try, so the loop ends.
C8_EncodeBound ==
    (Searching /\ min_quality <= max_quality) =>
        /\ Len(visited) <= FloorLog2(RangeSize) + 1
        /\ (min_quality = DefaultMinQuality /\ max_quality = DefaultMaxQuality)
              => Len(visited) <= 7
        /\ \A i, j \in 1..Len(visited) : visited[i] = visited[j] => i = j
        /\ Visited \subseteq min_quality..max_quality
        /\ pc = "search" =>
              /\ high - low + 1 >= 0
              /\ high - low + 1 <= Halved(RangeSize, Len(visited))

\* C8 witness: the default range searched with seven encodes.
C8_Witness_SevenEncodes ==
    /\ SearchExited
    /\ min_quality = DefaultMinQuality
    /\ max_quality = DefaultMaxQuality
    /\ Len(visited) = 7

\* The oracle never shrinks as the quality grows.
Monotone ==
    \A q \in min_quality..(max_quality - 1) :
        EncodedSize(img, q) <= EncodedSize(img, q + 1)

\* The target is below the encoded size at every quality of the range.
TargetBelowAll ==
    \A q \in min_quality..max_quality :
        EncodedSize(img, q) * 100 > target_size_bytes

DefaultSearch ==
    /\ min_quality = DefaultMinQuality
    /\ max_quality = DefaultMaxQuality
    /\ imgMode = "RGB"

\* C9 as stated: with the default range, a non-decreasing oracle and a target
\* below every encoded size, the search returns quality 10.
C9_Original_ReturnsMinQuality ==
    (SearchExited /\ DefaultSearch /\ Monotone /\ TargetBelowAll) =>
        best_quality = Some(DefaultMinQuality)

\* C9 amended: in that case the search returns the first-encoded quality whose
\* size equals the size at quality 10, which is quality 10 itself when quality
\* 11 encodes to more bytes than quality 10; it never returns NotFound.
C9_ReturnsSmallestEncode ==
    (SearchExited /\ DefaultSearch /\ Monotone /\ TargetBelowAll) =>
        /\ best_quality # None
        /\ DefaultMinQuality \in Visited
        /\ EncodedSize(img, Val(best_quality)) = EncodedSize(img, DefaultMinQuality)
        /\ \A i \in 1..Len(visited) :
              EncodedSize(img, visited[i]) = EncodedSize(img, DefaultMinQuality)
                  => \E j \in 1..i : visited[j] = Val(best_quality)
        /\ EncodedSize(img, DefaultMinQuality) < EncodedSize(img, DefaultMinQuality + 1)
              => best_quality = Some(DefaultMinQuality)

\* C9 witness: quality 10 returned because it alone has the smallest size.
C9_Witness_Quality10 ==
    /\ SearchExited
    /\ DefaultSearch
    /\ TargetBelowAll
    /\ EncodedSize(img, DefaultMinQuality) < EncodedSize(img, DefaultMinQuality + 1)
    /\ best_quality = Some(DefaultMinQuality)

\* C10: the search returns (None, None) exactly when its range is empty, and
\* compressImage then warns and writes nothing.
C10_NotFoundIffEmptyRange ==
    /\ SearchExited =>
          /\ (best_quality = None) <=> (min_quality > max_quality)
          /\ (best_quality = None) <=> (best_buffer = None)
          /\ best_quality = None => visited = <<>>
    /\ SearchReported =>
          /\ (best_quality = None) <=> (min_quality > max_quality)
          /\ IF best_quality = None
             THEN /\ message = "Could not determine an optimal quality setting."
                  /\ outFile = "absent"
             ELSE /\ message = "success"
                  /\ outFile = "buffer"

\* C10 witness: an empty range reported as a warning.
C10_Witness_Warned ==
    /\ SearchReported
    /\ min_quality > max_quality
    /\ best_quality = None
    /\ message = "Could not determine an optimal quality setting."
    /\ outFile = "absent"

-----------------------------------------------------------------------------
(* Properties of the bitrate formulas *)

\* b = floor((bits / d) / 1000), where bits128 is 128 times a bit count in
\* units of 10.24 bits and d a duration in hundredths of a second.
IsFloorKbps(b, bits128, d) ==
    /\ b * 125 * d <= bits128
    /\ bits128 < (b + 1) * 125 * d

\* C11: a video target that is not rejected reaches the encoder with the
\* bitrate floor(((target_bytes*8 - 128000*dur) / dur) / 1000); 1 MB over 60 s
\* gives 11 kbps; a target whose bits (800000 for 100000 bytes, 838860.8 for
\* the 0.10 MB the spin box can hold) are below the 7680000 audio bits of 60 s
\* is rejected (100000 bytes are 78125 units of 10.24 bits).
C11_VideoBitrateFormula ==
    /\ (kind = "video" /\ useTargetSizeCheck /\ dur # None) =>
          /\ \A i \in 1..Len(encoderCalls) :
                IsFloorKbps(encoderCalls[i].bitrate,
                            (targetSizeSpin * 8192 - 125 * Val(dur)) * 128, Val(dur))
          /\ (encoderCalls # <<>> /\ targetSizeSpin = 100 /\ dur = Some(6000)) =>
                encoderCalls[1].bitrate = 11
          /\ (pc = "done" /\ targetSizeSpin = 10 /\ dur = Some(6000)) =>
                /\ encoderCalls = <<>>
                /\ message = "Target size too small for the audio track."
    /\ 78125 - audio_bits(6000) <= 0

\* C11 witness: 1 MB over 60 s encoded at 11 kbps.
C11_Witness_ElevenKbps ==
    /\ pc = "done"
    /\ kind = "video"
    /\ useTargetSizeCheck
    /\ targetSizeSpin = 100
    /\ dur = Some(6000)
    /\ Len(encoderCalls) = 1
    /\ encoderCalls[1].bitrate = 11

\* The positive durations a probe can return.
PositiveDurations ==
    {Val(ParseFloat(t)) :
        t \in {u \in Stdouts : ParseFloat(u) # None /\ Val(ParseFloat(u)) > 0}}
    \cup {l \in MutagenLengths : l > 0}

\* C12: the audio bitrate is floor((target_bytes*8 / dur) / 1000) with nothing
\* subtracted; for a fixed duration > 0 a larger target never gives a smaller
\* bitrate, and for a fixed target a longer duration never gives a larger one.
C12_AudioBitrateMonotone ==
    (kind = "audio" /\ useTargetSizeCheck /\ pc \in {"encode", "done"}
        /\ bitrate # None /\ dur # None /\ Val(dur) > 0) =>
        /\ IsFloorKbps(Val(bitrate), targetSizeSpin * 8192 * 128, Val(dur))
        /\ \A s \in TargetSpinValues :
              /\ s >= targetSizeSpin =>
                    audio_computed_bitrate(s, Val(dur)) >= Val(bitrate)
              /\ s <= targetSizeSpin =>
                    audio_computed_bitrate(s, Val(dur)) <= Val(bitrate)
        /\ \A d \in PositiveDurations :
              /\ d >= Val(dur) =>
                    audio_computed_bitrate(targetSizeSpin, d) <= Val(bitrate)
              /\ d <= Val(dur) =>
                    audio_computed_bitrate(targetSizeSpin, d) >= Val(bitrate)

\* C12 witness: 1 MB over 60 s resolved to 139 kbps, above what 0.10 MB gives
\* and above what 65.5 s gives.
C12_Witness_139Kbps ==
    /\ pc = "encode"
    /\ kind = "audio"
    /\ useTargetSizeCheck
    /\ targetSizeSpin = 100
    /\ dur = Some(6000)
    /\ bitrate = Some(139)
    /\ audio_computed_bitrate(10, 6000) < 139
    /\ audio_computed_bitrate(100, 6550) < 139

-----------------------------------------------------------------------------
(* Properties of the encoder invocation and of the output file *)

\* C13: a request that ends in failure leaves nothing at the output path: a
\* file is there only when the plan was resolved and the encoder (or the image
\* write) succeeded.
C13_NoPartialOutputOnFailure ==
    pc = "done" =>
        /\ message # "success" => outFile = "absent"
        /\ outFile # "absent" =>
              /\ outFile # "partial"
              /\ kind \in {"video", "audio"} =>
                    returncode = Some(0) /\ bitrate # None

\* C14: one video or audio request runs the encoder at most once; when it
\* exits non-zero the dialog shows its standard error and the request ends
\* without another run.
C14_EncoderOnceNoRetry ==
    /\ Len(encoderCalls) <= 1
    /\ (kind \in {"video", "audio"} /\ returncode # None /\ Val(returncode) # 0) =>
          /\ pc = "done"
          /\ Len(encoderCalls) = 1
          /\ stderr # None
          /\ message = (IF kind = "video"
                        THEN "Video compression failed. Error: "
                        ELSE "Audio compression failed. Error: ") \o Val(stderr)

\* C14 witness: a failed audio encode reported with ffmpeg's own words.
C14_Witness_FailureShown ==
    /\ pc = "done"
    /\ kind = "audio"
    /\ returncode = Some(1)
    /\ stderr = Some("No space left on device")
    /\ message = "Audio compression failed. Error: No space left on device"
    /\ Len(encoderCalls) = 1

-----------------------------------------------------------------------------
(* Further properties of the image quality search *)

\* Position of quality q in the order of encoding.
VisitIndex(q) == CHOOSE i \in 1..Len(visited) : visited[i] = q

\* C15: among the encoded qualities at the least distance from the target the
\* search holds the one encoded first, with its buffer: no earlier trial was
\* as close, and a later trial that is exactly as close has not replaced it.
C15_FirstOfTiesKept ==
    (Searching /\ visited # <<>>) =>
        /\ best_quality # None
        /\ Val(best_quality) \in Visited
        /\ best_buffer = Some([quality |-> Val(best_quality),
                               size |-> EncodedSize(img, Val(best_quality))])
        /\ \A j \in 1..Len(visited) :
              /\ j < VisitIndex(Val(best_quality)) =>
                    DiffAt(visited[j]) > DiffAt(Val(best_quality))
              /\ j > VisitIndex(Val(best_quality)) =>
                    DiffAt(visited[j]) >= DiffAt(Val(best_quality))

\* C15 witness: a later trial tied with the incumbent and did not replace it.
C15_Witness_TieKept ==
    /\ SearchExited
    /\ best_quality # None
    /\ \E j \in 1..Len(visited) :
          /\ j > VisitIndex(Val(best_quality))
          /\ DiffAt(visited[j]) = DiffAt(Val(best_quality))

\* The qualities of the range whose encoded size is at most the target; the
\* others exceed it.
Fitting == {q \in min_quality..max_quality :
               EncodedSize(img, q) * 100 <= target_size_bytes}

\* C16: when the encoded size is non-decreasing in quality, the search has
\* encoded the largest quality that fits the target and the smallest quality
\* that exceeds it, whenever they exist, and the quality it returns is as close
\* to the target as any quality of the whole range.
C16_MonotoneGlobalOptimum ==
    (SearchExited /\ imgMode = "RGB" /\ min_quality <= max_quality) =>
        LET range   == min_quality..max_quality
            size    == [q \in range |-> EncodedSize(img, q)]
            fits(q) == size[q] * 100 <= target_size_bytes
            closest == Diff(size[Val(best_quality)], target_size_bytes)
        IN  /\ size \in [range -> Nat]
            /\ (\A q \in min_quality..(max_quality - 1) : size[q] <= size[q + 1]) =>
                  /\ best_quality # None
                  /\ \A q \in range : closest <= Diff(size[q], target_size_bytes)
                  /\ \A q \in range :
                        IF fits(q)
                        THEN (\A k \in 1..(max_quality - q) : ~fits(q + k))
                                => q \in Visited
                        ELSE (\A k \in 1..(q - min_quality) : fits(q - k))
                                => q \in Visited

\* C16 witness: a search of the default range over a non-decreasing oracle
\* with qualities on both sides of the target has finished, and its result
\* is strictly closer to the target than another quality it encoded.
C16_Witness_BothSidesEncoded ==
    /\ SearchExited
    /\ DefaultSearch
    /\ Monotone
    /\ Fitting # {}
    /\ Fitting # min_quality..max_quality
    /\ best_quality # None
    /\ \E q \in Visited : DiffAt(Val(best_quality)) < DiffAt(q)
    /\ \E q \in min_quality..max_quality : q \notin Visited

-----------------------------------------------------------------------------
(* The encoder command of the video tab *)

\* C17: a video encoder command built in target-size mode asks for aac audio
\* at the very bitrate that the video bitrate formula subtracted
\* (audio_bitrate = 128000 bps, "-b:a 128k"); a command built in direct mode
\* copies the audio, passes no "-b:a" and carries the spin-box video bitrate.
C17_AudioArgsMatchFormula ==
    kind = "video" =>
        \A i \in 1..Len(encoderCalls) :
            IF useTargetSizeCheck
            THEN /\ encoderCalls[i].ca = "aac"
                 /\ encoderCalls[i].ba # None
                 /\ Val(encoderCalls[i].ba) * 1000 = audio_bitrate
                 /\ dur # None
                 /\ IsFloorKbps(encoderCalls[i].bitrate,
                                (total_bits(targetSizeSpin)
                                   - ((Val(encoderCalls[i].ba) * 1000) \div 1024) * Val(dur)) * 128,
                                Val(dur))
            ELSE /\ encoderCalls[i].ca = "copy"
                 /\ encoderCalls[i].ba = None
                 /\ encoderCalls[i].bitrate = bitrateSpin

\* C17 witness: a target-size video request has run the encoder with aac at
\* 128k.
C17_Witness_AacAt128k ==
    /\ pc = "done"
    /\ kind = "video"
    /\ useTargetSizeCheck
    /\ Len(encoderCalls) = 1
    /\ encoderCalls[1].ca = "aac"
    /\ encoderCalls[1].ba = Some(128)
    /\ encoderCalls[1].bitrate > 0

-----------------------------------------------------------------------------
(* The routing of the image tab *)

====
